---- MODULE Spec2Model ----
(***************************************************************************)
(* The EM driver of pyMM (src/pyMM/models.py): BaseModel.fit, the          *)
(* responsibility evaluators, the family-specific raising behaviour of     *)
(* the E-step and the M-step, and the query methods of a model object.     *)
(*                                                                         *)
(* Numerical values are abstracted to what decides the control flow:       *)
(*   - a data entry is "nan" (missing) or "val";                           *)
(*   - a component's parameters are summarised by a condition:             *)
(*       "ok"        logpdf succeeds with the covariance as it is,         *)
(*       "sing"      logpdf raises, and succeeds once SMALL is added to    *)
(*                   the diagonal,                                         *)
(*       "bad"       logpdf raises with and without SMALL (NaN entries),   *)
(*       "nonfinite" logpdf returns a non-finite value without raising     *)
(*                   (NaN mean with a valid covariance);                   *)
(*   - a log-likelihood is NegInf, NaN or a finite integer, the tolerance  *)
(*     being one unit.                                                     *)
(* What the numbers of a step are is a nondeterministic choice, except     *)
(* where the code fixes it (an empty dataset gives NaN).                   *)
(***************************************************************************)
EXTENDS Integers, Sequences, FiniteSets, TLC

\* ---- bounds of the model ----
MaxRows == 2
MaxIter == 3
MaxFits == 2
\* of the matrix computations: data dimension, latent dimension, entries
MaxDim == 3
MaxLatent == 2
MaxVal == 2

\* ---- configuration fixed by the model instance ----
n_components == 2
DataDim == 2
tol == 1

Families == {"GMM", "SphericalGMM", "DiagonalGMM", "MPPCA", "MFA"}
LowRank == {"MPPCA", "MFA"}
K == 1..n_components

\* ---- data: rows of DataDim entries, "nan" marks a missing entry ----
\* (the rows whose missing entries are the trailing ones: a permutation of
\* the coordinates brings a row to this form)
Rows == {r \in [1..DataDim -> {"nan", "val"}] :
            \A d \in 1..(DataDim - 1) : r[d] = "nan" => r[d + 1] = "nan"}
Datasets == UNION {[1..n -> Rows] : n \in 0..MaxRows}

IsNaN(e) == e = "nan"
\* np.isnan(X).any()
AnyNaN(Xs) == \E n \in 1..Len(Xs) : \E d \in 1..DataDim : IsNaN(Xs[n][d])
\* np.isnan(row).all()
AllNaN(row) == \A d \in 1..DataDim : IsNaN(row[d])
\* X[~np.isnan(X).all(axis=1), :]
RECURSIVE DropAllMissing(_)
DropAllMissing(Xs) ==
    IF Xs = <<>> THEN <<>>
    ELSE IF AllNaN(Head(Xs)) THEN DropAllMissing(Tail(Xs))
         ELSE <<Head(Xs)>> \o DropAllMissing(Tail(Xs))
\* observed_list[n] = np.where(~np.isnan(row))
Observed(row) == {d \in 1..DataDim : ~IsNaN(row[d])}

\* ---- log-likelihood values ----
NegInf == [k |-> "neginf", v |-> 0]
NaN == [k |-> "nan", v |-> 0]
Unbound == [k |-> "unbound", v |-> 0]
Fin(v) == [k |-> "fin", v |-> v]
\* the finite values an E-step can compute: equal to the previous one, or one
\* tolerance away from it
LLValues == {Fin(0), Fin(tol)}
Abs(x) == IF x < 0 THEN -x ELSE x

\* ---- mixture weights, responsibilities and occupation counts ----
\* A row of responsibilities is counted in units of 1/n_components, an
\* occupation count is a sum of such rows, and a weight vector is the
\* quotient num[k] / den, or NaN.
RECURSIVE SumUpTo(_, _)
SumUpTo(f, k) == IF k = 0 THEN 0 ELSE f[k] + SumUpTo(f, k - 1)
Sum(f) == SumUpTo(f, n_components)
Zeros == [k \in K |-> 0]
NaNWeights == [nan |-> TRUE, num |-> Zeros, den |-> 0]
Quotient(num, den) == [nan |-> FALSE, num |-> num, den |-> den]
UniformWeights == Quotient([k \in K |-> 1], n_components)
NaNRow == [nan |-> TRUE, r |-> Zeros]
RespRow(r) == [nan |-> FALSE, r |-> r]
Simplex == {r \in [K -> 0..n_components] : Sum(r) = n_components}

\* ---- parameters ----
Conds == {"ok", "sing", "bad", "nonfinite"}
\* draw: the state of the random generator the values were drawn from
\* ("none": no random draw was made for them)
NoParams == [src |-> "unset", gen |-> 0, cond |-> [k \in K |-> "ok"], w |-> NaNWeights,
             draw |-> "none"]
CallerParams == {[src |-> "caller", gen |-> 0, cond |-> c, w |-> UniformWeights,
                  draw |-> "none"] : c \in [K -> Conds]}
NoStats == [gen |-> 0, nan |-> FALSE, zz |-> [k \in K |-> "ok"], r |-> Zeros]
NoResult == [op |-> "none", outcome |-> "none", err |-> "none", value |-> "none"]
Returned(op, v) == [op |-> op, outcome |-> "returned", err |-> "none", value |-> v]
Raised(op, e) == [op |-> op, outcome |-> "raised", err |-> e, value |-> "none"]

\* ---- density evaluation ----
\* multivariate_normal.logpdf for a component of condition c; reg: SMALL was
\* added to the diagonal of the covariance handed to it
Logpdf(c, reg) ==
    CASE c = "ok" -> "finite"
      [] c = "sing" -> IF reg THEN "finite" ELSE "raise"
      [] c = "bad" -> "raise"
      [] c = "nonfinite" -> "nonfinite"

\* one call of logpdf: row n (0: the whole batch), component k
Call(n, k, reg, out) == [n |-> n, k |-> k, reg |-> reg, out |-> out]
NoEval == [log |-> <<>>, err |-> "none"]

\* (a variant that retries whether or not robust is set)
EvalComponentAlwaysRetry(k, c, rob) ==
    LET first == Logpdf(c, FALSE)
        second == Logpdf(c, TRUE)
    IN
    IF first # "raise"
    THEN [log |-> <<Call(0, k, FALSE, first)>>, err |-> "none"]
    ELSE [log |-> <<Call(0, k, FALSE, "raise"), Call(0, k, TRUE, second)>>,
          err |-> IF second = "raise" THEN "IllConditioned" ELSE "none"]

\* the body of the loop of _get_log_responsibilities for component k
EvalComponent(k, c, rob) ==
    LET first == Logpdf(c, FALSE) IN
    IF first # "raise"
    THEN [log |-> <<Call(0, k, FALSE, first)>>, err |-> "none"]
    ELSE IF ~rob
    THEN [log |-> <<Call(0, k, FALSE, "raise")>>, err |-> "IllConditioned"]
    ELSE LET second == Logpdf(c, TRUE) IN
         [log |-> <<Call(0, k, FALSE, "raise"), Call(0, k, TRUE, second)>>,
          err |-> IF second = "raise" THEN "IllConditioned" ELSE "none"]

\* the loop over the components, from component k on
RECURSIVE EvalFrom(_, _, _)
EvalFrom(k, conds, rob) ==
    IF k > n_components THEN NoEval
    ELSE LET e == EvalComponent(k, conds[k], rob) IN
         IF e.err # "none" THEN e
         ELSE LET rest == EvalFrom(k + 1, conds, rob) IN
              [log |-> e.log \o rest.log, err |-> rest.err]

get_log_responsibilities(conds, rob) == EvalFrom(1, conds, rob)

\* the body of the inner loop of _get_log_responsibilities_miss: row n,
\* component k. The retry adds SMALL*eye(data_dim) to the covariance of the
\* observed coordinates: with one observed coordinate numpy broadcasts the sum
\* to data_dim x data_dim and logpdf raises inside the inner try; with more
\* (and fewer than data_dim) the sum itself raises, outside of it.
EvalComponentMiss(n, k, c, rob, row) ==
    LET first == Logpdf(c, FALSE)
        nobs == Cardinality(Observed(row))
    IN
    IF first # "raise"
    THEN [log |-> <<Call(n, k, FALSE, first)>>, err |-> "none"]
    ELSE IF ~rob
    THEN [log |-> <<Call(n, k, FALSE, "raise")>>, err |-> "IllConditioned"]
    ELSE IF nobs = DataDim
    THEN LET second == Logpdf(c, TRUE) IN
         [log |-> <<Call(n, k, FALSE, "raise"), Call(n, k, TRUE, second)>>,
          err |-> IF second = "raise" THEN "IllConditioned" ELSE "none"]
    ELSE IF nobs = 1
    THEN [log |-> <<Call(n, k, FALSE, "raise"), Call(n, k, TRUE, "raise")>>,
          err |-> "IllConditioned"]
    ELSE [log |-> <<Call(n, k, FALSE, "raise")>>, err |-> "ValueError"]

\* the loops over rows and components, from row n, component k on
RECURSIVE EvalMissFrom(_, _, _, _, _)
EvalMissFrom(n, k, Xs, conds, rob) ==
    IF n > Len(Xs) THEN NoEval
    ELSE IF k > n_components THEN EvalMissFrom(n + 1, 1, Xs, conds, rob)
    ELSE LET e == EvalComponentMiss(n, k, conds[k], rob, Xs[n]) IN
         IF e.err # "none" THEN e
         ELSE LET rest == EvalMissFrom(n, k + 1, Xs, conds, rob) IN
              [log |-> e.log \o rest.log, err |-> rest.err]

get_log_responsibilities_miss(Xs, conds, rob) == EvalMissFrom(1, 1, Xs, conds, rob)

\* ---- from log-densities to responsibilities ----
\* the log-density the evaluator keeps for row n and component k: the result
\* of the last call made for them (a call for the whole batch has n = 0)
RECURSIVE DensityFrom(_, _, _, _)
DensityFrom(log, j, n, k) ==
    IF j = 0 THEN "finite"
    ELSE IF log[j].k = k /\ log[j].n \in {0, n} THEN log[j].out
    ELSE DensityFrom(log, j - 1, n, k)
Density(log, n, k) == DensityFrom(log, Len(log), n, k)

\* np.log(components)[k]
LogWeight(w, k) ==
    IF w.nan THEN "nan" ELSE IF w.num[k] = 0 THEN "neginf" ELSE "fin"
\* log_r + np.log(components), one entry
AddLog(d, lw) ==
    IF d = "nonfinite" \/ lw = "nan" THEN "nan"
    ELSE IF lw = "neginf" THEN "neginf"
    ELSE "fin"
LogR(log, w, n) == [k \in K |-> AddLog(Density(log, n, k), LogWeight(w, k))]
\* sp.misc.logsumexp(log_r, axis=1), one row
LogSumExp(row) ==
    IF \E k \in K : row[k] = "nan" THEN "nan"
    ELSE IF \A k \in K : row[k] = "neginf" THEN "neginf"
    ELSE "fin"
\* np.exp(log_r - log_r_sum), one row: the values it can have
Responsibilities(row) ==
    IF LogSumExp(row) # "fin" THEN {NaNRow}
    ELSE {RespRow(r) : r \in {q \in Simplex : \A k \in K : row[k] = "neginf" => q[k] = 0}}
\* [r.sum() for r in responsibilities.T]
RECURSIVE OccupationUpTo(_, _)
OccupationUpTo(resp, n) ==
    IF n = 0 THEN Zeros
    ELSE LET rest == OccupationUpTo(resp, n - 1) IN
         [k \in K |-> rest[k] + resp[n].r[k]]
Occupation(resp) == OccupationUpTo(resp, Len(resp))

\* ---- E-step ----
\* The outcomes of _e_step(X, params): the evaluator, then the statistics of
\* the family. MPPCA inverts W^T W + sigma_sq I unguarded (per component
\* without missing data, per row and component with): that matrix can be
\* singular only when the covariance itself was.
e_step(fam, miss, Xs, p, rob) ==
    LET r == IF miss THEN get_log_responsibilities_miss(Xs, p.cond, rob)
             ELSE get_log_responsibilities(p.cond, rob)
        N == Len(Xs)
        logr == [n \in 1..N |-> LogR(r.log, p.w, n)]
        resps == {q \in [1..N -> {NaNRow} \cup {RespRow(x) : x \in Simplex}] :
                     \A n \in 1..N : q[n] \in Responsibilities(logr[n])}
        nan == \E n \in 1..N : LogSumExp(logr[n]) # "fin"
        lls == IF nan \/ N = 0 THEN {NaN} ELSE LLValues
        unweighted == fam = "MFA" /\ miss /\ AnyNaN(Xs)
        zzs(occ) == IF fam \notin LowRank THEN {[k \in K |-> "ok"]}
                    ELSE IF N = 0 THEN {[k \in K |-> "sing"]}
                    ELSE IF nan THEN {[k \in K |-> "ok"]}
                    ELSE {z \in [K -> {"ok", "sing"}] :
                             \A k \in K : (occ[k] = 0 /\ ~unweighted) => z[k] = "sing"}
        invRaises == /\ fam = "MPPCA"
                     /\ \E k \in K : p.cond[k] = "sing"
                     /\ (~miss \/ Len(Xs) > 0)
    IN
    IF r.err # "none"
    THEN {[err |-> r.err, log |-> r.log, resp |-> <<>>, ss |-> NoStats, ll |-> Unbound]}
    ELSE (IF invRaises
          THEN {[err |-> "LinAlgError", log |-> r.log, resp |-> <<>>, ss |-> NoStats,
                 ll |-> Unbound]}
          ELSE {})
         \cup UNION {{[err |-> "none", log |-> r.log, resp |-> q,
                       ss |-> [gen |-> p.gen, nan |-> nan, zz |-> z, r |-> Occupation(q)],
                       ll |-> l] :
                      z \in zzs(Occupation(q)), l \in lls} : q \in resps}

\* how a call of _e_step can end: "none" when it returns
e_step_ends(fam, miss, Xs, p, rob) ==
    LET r == IF miss THEN get_log_responsibilities_miss(Xs, p.cond, rob)
             ELSE get_log_responsibilities(p.cond, rob)
    IN
    IF r.err # "none" THEN {r.err}
    ELSE IF fam = "MPPCA" /\ (\E k \in K : p.cond[k] = "sing") /\ (~miss \/ Len(Xs) > 0)
    THEN {"LinAlgError", "none"}
    ELSE {"none"}

\* ---- M-step ----
\* np.linalg.solve(zz, xz.T) over the components in order: MPPCA calls it
\* unguarded, MFA retries with SMALL on the diagonal under robust and raises
\* the model's error otherwise
SolveZZ(fam, zz, rob) ==
    IF fam \notin LowRank \/ \A k \in K : zz[k] = "ok" THEN "none"
    ELSE IF fam = "MPPCA" THEN "LinAlgError"
    ELSE IF rob THEN "none"
    ELSE "IllConditioned"

\* (a variant that forgets to divide the occupation counts)
WeightsNotDivided(stats, n) ==
    IF stats.nan \/ n = 0 THEN NaNWeights
    ELSE Quotient(stats.r, n_components)

\* components = np.array([r / n_examples for r in r_list]): r is counted in
\* units of 1/n_components; 0/0 and NaN/n are NaN
Weights(stats, n) ==
    IF stats.nan \/ n = 0 THEN NaNWeights
    ELSE Quotient(stats.r, n * n_components)

\* (a variant that hands back the parameters it was given)
m_step_returns_input(fam, stats, p, rob, n) ==
    LET e == SolveZZ(fam, stats.zz, rob) IN
    IF e # "none" THEN {[err |-> e, params |-> p, input |-> p]}
    ELSE {[err |-> "none", params |-> p, input |-> p]}

\* (a variant that writes the new values into the dictionary it was given)
m_step_in_place(fam, stats, p, rob, n) ==
    LET e == SolveZZ(fam, stats.zz, rob)
        cs == IF stats.nan \/ n = 0 THEN {[k \in K |-> "bad"]}
              ELSE {c \in [K -> {"ok", "sing", "bad"}] :
                       \A k \in K : stats.r[k] = 0 <=> c[k] = "bad"}
        new(c) == [src |-> "mstep", gen |-> p.gen + 1, cond |-> c,
                   w |-> Weights(stats, n), draw |-> "none"]
    IN
    IF e # "none" THEN {[err |-> e, params |-> p, input |-> p]}
    ELSE {[err |-> "none", params |-> new(c), input |-> new(c)] : c \in cs}

\* The outcomes of _m_step(ss, params): a new parameters value, of the next
\* generation (params), and the value of the dictionary it was given as the
\* call leaves it (input): no statement of an _m_step writes to it.
\* Dividing by n_examples = 0 or by an occupation count of 0, or using NaN
\* statistics, gives NaN; otherwise the covariance is positive semidefinite,
\* up to rounding.
m_step(fam, stats, p, rob, n) ==
    LET e == SolveZZ(fam, stats.zz, rob)
        cs == IF stats.nan \/ n = 0 THEN {[k \in K |-> "bad"]}
              ELSE {c \in [K -> {"ok", "sing", "bad"}] :
                       \A k \in K : stats.r[k] = 0 <=> c[k] = "bad"}
    IN
    IF e # "none" THEN {[err |-> e, params |-> p, input |-> p]}
    ELSE {[err |-> "none",
           params |-> [src |-> "mstep", gen |-> p.gen + 1, cond |-> c,
                       w |-> Weights(stats, n), draw |-> "none"],
           input |-> p] : c \in cs}

\* ---- random generators ----
\* the generator of the random module and the global generator of
\* numpy.random: each is in the state a seed put it in ("seeded") or in a
\* state that depends on the draws made in the process so far ("unseeded")
ProcessStart == [py |-> "unseeded", np |-> "unseeded"]
\* seed(self.random_state), with seed imported from random
Seed(g) == [g EXCEPT !.py = "seeded"]
\* KMeans(self.n_components), np.random.randn: random_state is not passed
\* on, the centres are drawn from the global generator of numpy.random
KMeansSource(g) == g.np

\* ---- the initializer (external): KMeans needs n_components rows and puts
\* at least one row in each cluster; the weights are the cluster sizes over
\* the number of rows ----
init_params(Xs, g) ==
    IF Len(Xs) < n_components
    THEN {[err |-> "ValueError", params |-> NoParams]}
    ELSE {[err |-> "none",
           params |-> [src |-> "init", gen |-> 0, cond |-> c,
                       w |-> Quotient(sizes, Len(Xs)),
                       draw |-> KMeansSource(Seed(g))]] :
          c \in [K -> {"ok", "sing"}],
          sizes \in {q \in [K -> 1..Len(Xs)] : Sum(q) = Len(Xs)}}

\* (a variant that also stops at a change equal to the tolerance)
ToleranceTestLeq(l, old) ==
    /\ l.k = "fin"
    /\ old.k = "fin"
    /\ Abs(l.v - old.v) <= tol

\* (a variant that takes minus infinity for within the tolerance of a value)
ToleranceTestFromStart(l, old) ==
    \/ l.k = "fin" /\ old.k = "neginf"
    \/ l.k = "fin" /\ old.k = "fin" /\ Abs(l.v - old.v) < tol

\* np.abs(ll - oldL) < self.tol
ToleranceTest(l, old) ==
    /\ l.k = "fin"
    /\ old.k = "fin"
    /\ Abs(l.v - old.v) < tol

\* ---- matrices: numpy arrays of two dimensions, as sequences of rows ----
NRows(A) == Len(A)
NCols(A) == Len(A[1])
Max(a, b) == IF a > b THEN a ELSE b
Min(a, b) == IF a < b THEN a ELSE b
Matrices(r, c, S) == [1..r -> [1..c -> S]]
\* np.eye(n)
Eye(n) == [i \in 1..n |-> [j \in 1..n |-> IF i = j THEN 1 ELSE 0]]
\* a*A for a scalar a
Scale(a, A) == [i \in 1..NRows(A) |-> [j \in 1..NCols(A) |-> a * A[i][j]]]
\* A + B for arrays of the same shape
Plus(A, B) == [i \in 1..NRows(A) |-> [j \in 1..NCols(A) |-> A[i][j] + B[i][j]]]
\* A.T
Transpose(A) == [j \in 1..NCols(A) |-> [i \in 1..NRows(A) |-> A[i][j]]]
\* A @ B is defined when the inner dimensions agree
MatMulDefined(A, B) == NCols(A) = NRows(B)
MatMul(A, B) ==
    [i \in 1..NRows(A) |-> [j \in 1..NCols(B) |->
        SumUpTo([l \in 1..NCols(A) |-> A[i][l] * B[l][j]], NCols(A))]]
\* A * B (elementwise) is defined when each dimension agrees or is 1 in one
\* of the two arrays, which is then repeated along it
Broadcastable(A, B) ==
    /\ NRows(A) = NRows(B) \/ NRows(A) = 1 \/ NRows(B) = 1
    /\ NCols(A) = NCols(B) \/ NCols(A) = 1 \/ NCols(B) = 1
At(A, i, j) == A[IF NRows(A) = 1 THEN 1 ELSE i][IF NCols(A) = 1 THEN 1 ELSE j]
Times(A, B) ==
    [i \in 1..Max(NRows(A), NRows(B)) |-> [j \in 1..Max(NCols(A), NCols(B)) |->
        At(A, i, j) * At(B, i, j)]]
\* np.trace(A)
Trace(A) ==
    SumUpTo([i \in 1..Min(NRows(A), NCols(A)) |-> A[i][i]], Min(NRows(A), NCols(A)))
\* np.diag(A) of a matrix, np.diag(v) of a vector
DiagOf(A) == [i \in 1..Min(NRows(A), NCols(A)) |-> A[i][i]]
DiagMatrix(v) == [i \in 1..Len(v) |-> [j \in 1..Len(v) |-> IF i = j THEN v[i] ELSE 0]]
\* np.mean(v)
Mean(v) == SumUpTo(v, Len(v)) \div Len(v)
\* np.outer(u, v)
Outer(u, v) == [i \in 1..Len(u) |-> [j \in 1..Len(v) |-> u[i] * v[j]]]

\* W.dot(z), W @ z for a vector z
MatVec(A, v) ==
    [i \in 1..NRows(A) |-> SumUpTo([l \in 1..Len(v) |-> A[i][l] * v[l]], Len(v))]
\* u - v for vectors of the same length
Minus(u, v) == [i \in 1..Len(u) |-> u[i] - v[i]]
\* np.linalg.solve(A, B) for a diagonal A with a non-zero diagonal: the Y
\* with A @ Y = B
Solve(A, B) ==
    [i \in 1..NRows(B) |-> [j \in 1..NCols(B) |-> B[i][j] \div A[i][i]]]

\* the outcome of a computation: a value, or the exception it raised
Value(v) == [err |-> "none", v |-> v]
Raises(e) == [err |-> e, v |-> 0]

\* ---- what one fully observed row adds to the statistics of a component
\* of MPPCA ----
\* W: loadings, dev: row - mu, z: posterior mean of the latent point,
\* cov: its posterior covariance, r: the row's responsibility
\* MPPCA._e_step_no_miss, lines 947-965, for one row of the batch
RowStatsNoMiss(W, dev, z, cov, r) ==
    LET zz == Plus(cov, Outer(z, z))
        xz == Outer(dev, z)
        xx == Outer(dev, dev)
        s1 == Trace(xx)
        s2 == -2 * Trace(MatMul(xz, Transpose(W)))
        s3 == Trace(Times(zz, MatMul(Transpose(W), W)))
    IN
    Value([z |-> [l \in 1..Len(z) |-> z[l] * r],
           zz |-> Scale(r, zz),
           xz |-> Scale(r, xz),
           ss |-> r * (s1 + s2 + s3)])

\* MPPCA._e_step_miss, lines 1064-1076 (n_miss == 0): zz * W.T @ W is
\* (zz * W.T) @ W, the two operators having the same precedence
RowStatsMiss(W, dev, z, cov, r) ==
    LET zz == Plus(cov, Outer(z, z))
        xz == Outer(dev, z)
        xx == Outer(dev, dev)
        s1 == Trace(xx)
        s2 == -2 * Trace(MatMul(xz, Transpose(W)))
    IN
    IF ~Broadcastable(zz, Transpose(W)) THEN Raises("ValueError")
    ELSE IF ~MatMulDefined(Times(zz, Transpose(W)), W) THEN Raises("ValueError")
    ELSE LET s3 == Trace(MatMul(Times(zz, Transpose(W)), W)) IN
         Value([z |-> [l \in 1..Len(z) |-> z[l] * r],
                zz |-> Scale(r, zz),
                xz |-> Scale(r, xz),
                ss |-> r * (s1 + s2 + s3)])

\* ---- the body of the loop over the components in the M-step of a
\* low-rank family ----
\* r: occupation count, W: the component's element of W_list_old, x, z, zz,
\* xz: its accumulators; the mean is kept as the quotient (x - W z) / r
\* (a variant that re-estimates W first and uses it for the mean)
m_step_component_new_W(r, W, x, z, zz, xz) ==
    LET Wn == Transpose(Solve(zz, Transpose(xz)))
        resid == Minus(x, MatVec(Wn, z))
    IN
    [mu |-> [num |-> resid, den |-> r], W |-> Wn]

\* MPPCA._m_step, lines 1161-1168, and MFA._m_step, lines 1521-1538 (the
\* solve succeeding): resid reads the loop variable W before line 1167 /
\* 1531 binds it to the new matrix
m_step_component(r, W, x, z, zz, xz) ==
    LET resid == Minus(x, MatVec(W, z))
        mu == [num |-> resid, den |-> r]
        Wn == Transpose(Solve(zz, Transpose(xz)))
    IN
    [mu |-> mu, W |-> Wn]

\* ---- covariance materializers and their inverses ----
\* (a variant that sums the diagonal instead of averaging it)
convert_gmm_params_sum(fam, p) ==
    CASE fam = "SphericalGMM" ->
            [mu |-> p.mu, components |-> p.components,
             sigma_sq |-> SumUpTo(DiagOf(p.Sigma), Len(DiagOf(p.Sigma)))]
      [] fam = "DiagonalGMM" ->
            [mu |-> p.mu, components |-> p.components,
             Psi |-> DiagMatrix(DiagOf(p.Sigma))]
      [] OTHER -> p

\* _convert_gmm_params of SphericalGMM (lines 752-758) and DiagonalGMM
\* (777-782), for one component; GMM keeps the matrix as its parameter
convert_gmm_params(fam, p) ==
    CASE fam = "SphericalGMM" ->
            [mu |-> p.mu, components |-> p.components,
             sigma_sq |-> Mean(DiagOf(p.Sigma))]
      [] fam = "DiagonalGMM" ->
            [mu |-> p.mu, components |-> p.components,
             Psi |-> DiagMatrix(DiagOf(p.Sigma))]
      [] OTHER -> p

\* _params_to_Sigma of each family, for one component, called with
\* noisy=True ("noisy"), noisy=False ("noiseless") or without it ("default"):
\* only MFA's takes the argument
params_to_Sigma(fam, p, mode, D) ==
    IF mode # "default" /\ fam # "MFA" THEN Raises("TypeError")
    ELSE CASE fam = "GMM" -> Value(p.Sigma)
           [] fam = "SphericalGMM" -> Value(Scale(p.sigma_sq, Eye(D)))
           [] fam = "DiagonalGMM" -> Value(p.Psi)
           [] fam = "MPPCA" ->
                Value(Plus(MatMul(p.W, Transpose(p.W)), Scale(p.sigma_sq, Eye(D))))
           [] fam = "MFA" ->
                IF mode = "noiseless" THEN Value(MatMul(p.W, Transpose(p.W)))
                ELSE Value(Plus(MatMul(p.W, Transpose(p.W)), p.Psi))

\* compact parameters -> covariance matrix -> compact parameters
RoundTrip(fam, p, D) ==
    LET Sigma == params_to_Sigma(fam, p, "default", D).v IN
    convert_gmm_params(fam, [mu |-> p.mu, components |-> p.components, Sigma |-> Sigma])

\* ---- the inputs of the matrix computations ----
Dims == {d \in (1..MaxDim) \X (1..MaxLatent) : d[2] <= d[1]}
Variances == 1..MaxVal
ConstantVectors(n) == {[i \in 1..n |-> a] : a \in 0..1}
\* loading matrices: every column is a coordinate axis or the diagonal
Columns(D) ==
    {[i \in 1..D |-> IF i = a THEN 1 ELSE 0] : a \in 1..D} \cup {[i \in 1..D |-> 1]}
Loadings(D, L) == {Transpose(C) : C \in [1..L -> Columns(D)]}
\* diagonal matrices with a positive diagonal (in non-decreasing order: a
\* permutation of the coordinates brings a diagonal to this form)
DiagonalMatrices(n) ==
    {DiagMatrix(v) : v \in {u \in [1..n -> Variances] :
                               \A i \in 1..(n - 1) : u[i] <= u[i + 1]}}
\* symmetric matrices with such a diagonal and entries 0 or 1 off it
Covariances(n) ==
    {[i \in 1..n |-> [j \in 1..n |->
         IF i = j THEN A[i][i] ELSE off[<<Min(i, j), Max(i, j)>>]]] :
       A \in DiagonalMatrices(n),
       off \in [{q \in (1..n) \X (1..n) : q[1] < q[2]} -> 0..1]}
CompactParams(fam, D) ==
    CASE fam = "GMM" ->
            {[mu |-> "mu", components |-> "pi", Sigma |-> A] : A \in Covariances(D)}
      [] fam = "SphericalGMM" ->
            {[mu |-> "mu", components |-> "pi", sigma_sq |-> a] : a \in Variances}
      [] fam = "DiagonalGMM" ->
            {[mu |-> "mu", components |-> "pi", Psi |-> A] : A \in DiagonalMatrices(D)}
LowRankParams(fam, D, L) ==
    IF fam = "MPPCA"
    THEN {[W |-> W, sigma_sq |-> a] : W \in Loadings(D, L), a \in Variances}
    ELSE {[W |-> W, Psi |-> A] : W \in Loadings(D, L), A \in DiagonalMatrices(D)}

NoProbe == [op |-> "none", done |-> FALSE, fam |-> "none", D |-> 0, arg |-> 0, out |-> 0]
Probe(op, fam, D, arg) ==
    [op |-> op, done |-> FALSE, fam |-> fam, D |-> D, arg |-> arg, out |-> 0]
RowProbes ==
    UNION {{Probe("rowstats", "MPPCA", d[1],
                  [W |-> W, dev |-> dev, z |-> z, cov |-> Eye(d[2]), r |-> r]) :
              W \in Loadings(d[1], d[2]), dev \in ConstantVectors(d[1]),
              z \in ConstantVectors(d[2]), r \in Variances} : d \in Dims}
RoundTripProbes ==
    UNION {{Probe("roundtrip", fam, D, p) : p \in CompactParams(fam, D)} :
              fam \in {"GMM", "SphericalGMM", "DiagonalGMM"}, D \in 1..MaxDim}
\* matrices with all entries equal
ConstantMatrices(r, c) == {[i \in 1..r |-> [j \in 1..c |-> a]] : a \in 0..1}
\* accumulators of a component (latent_dim < data_dim): zz is a positive
\* multiple of the identity and xz is chosen as T @ zz for a matrix T, so
\* that the system has the solution T
ComponentProbes ==
    UNION {{Probe("mstep", fam, d[1],
                  [r |-> r, W |-> W, x |-> x, z |-> z, zz |-> zz,
                   xz |-> MatMul(T, zz)]) :
              W \in Loadings(d[1], d[2]), T \in ConstantMatrices(d[1], d[2]),
              zz \in {Scale(a, Eye(d[2])) : a \in Variances},
              x \in ConstantVectors(d[1]),
              z \in ConstantVectors(d[2]), r \in {1, MaxVal}} :
              fam \in LowRank, d \in {q \in Dims : q[2] < q[1]}}
MaterializeProbes ==
    UNION {{Probe("materialize", fam, d[1], [p |-> p, mode |-> mode]) :
              p \in LowRankParams(fam, d[1], d[2]),
              mode \in {"default", "noisy", "noiseless"}} :
              fam \in LowRank, d \in Dims}

\* ---- state ----
VARIABLES
    family, robust, max_iter, fitsLeft,
    isFitted, params, trainNll, missing_data, data_dim, n_examples, attrs,
    pc, X, cur, oldL, ll, i, ss, resp,
    calls, result, ending, nE, nM, prevL, lastStep, convObs, kept,
    probe, rng

config == <<family, robust, max_iter>>
budget == <<fitsLeft>>
model == <<isFitted, params, trainNll, missing_data, data_dim, n_examples, attrs>>
frame == <<pc, X, cur, oldL, ll, i, ss, resp>>
ghost == <<calls, result, ending, nE, nM, prevL, lastStep, convObs, kept>>
bench == <<probe>>
vars == <<config, budget, model, frame, ghost, bench, rng>>

\* what a caller can read off the model besides params and trainNll
Observable == <<isFitted, missing_data, data_dim, n_examples, attrs>>

\* BaseModel.__init__: isFitted is the only result attribute that exists
Fresh ==
    /\ isFitted = FALSE
    /\ params = NoParams
    /\ trainNll = Unbound
    /\ missing_data = FALSE
    /\ data_dim = 0
    /\ n_examples = 0
    /\ attrs = {}
    /\ pc = "idle"
    /\ X = <<>>
    /\ cur = NoParams
    /\ oldL = NegInf
    /\ ll = Unbound
    /\ i = 0
    /\ ss = NoStats
    /\ resp = <<>>
    /\ calls = <<>>
    /\ result = NoResult
    /\ ending = "none"
    /\ nE = 0
    /\ nM = 0
    /\ prevL = NegInf
    /\ lastStep = "none"
    /\ convObs = <<>>
    /\ kept = TRUE
    /\ rng = ProcessStart

\* a model of any configuration, fitted once
Init ==
    /\ family \in Families
    /\ robust \in BOOLEAN
    /\ max_iter \in 0..MaxIter
    /\ fitsLeft = 1
    /\ probe = NoProbe
    /\ Fresh

\* a model of the family that has every operation, fitted up to MaxFits
\* times, with an iteration budget that lets a fit take either exit
InitRefit ==
    /\ family = "MFA"
    /\ robust = FALSE
    /\ max_iter \in 1..2
    /\ fitsLeft = MaxFits
    /\ probe = NoProbe
    /\ Fresh

\* no model object is fitted: a matrix computation is applied to its inputs
InitAlgebra ==
    /\ family = "GMM"
    /\ robust = FALSE
    /\ max_iter = 0
    /\ fitsLeft = 0
    /\ probe \in RowProbes \cup RoundTripProbes \cup MaterializeProbes
                   \cup ComponentProbes
    /\ Fresh

\* how a raising fit ends: Failed for the model's ill-conditioning error
EndingOf(err) == IF err = "IllConditioned" THEN "Failed" ELSE "Error"

\* fit, lines 271-287 (and 313-316 when max_iter = 0: the loop body never
\* runs, ll is unbound and line 315 raises after line 314 has stored params)
Fit(Xin, pinit) ==
    /\ pc = "idle"
    /\ fitsLeft > 0
    /\ fitsLeft' = fitsLeft - 1
    /\ LET acc == DropAllMissing(Xin)
           inits == IF pinit = NoParams THEN init_params(acc, rng)
                    ELSE {[err |-> "none", params |-> pinit]}
       IN
       \E r \in inits :
          /\ missing_data' = AnyNaN(Xin)
          /\ data_dim' = DataDim
          /\ n_examples' = Len(acc)
          /\ X' = acc
          /\ oldL' = NegInf
          /\ ll' = Unbound
          /\ i' = 0
          /\ ss' = NoStats
          /\ resp' = <<>>
          /\ calls' = <<>>
          /\ nE' = 0
          /\ nM' = 0
          /\ prevL' = NegInf
          /\ lastStep' = "begin"
          /\ kept' = TRUE
          /\ cur' = r.params
          /\ IF r.err # "none"
             THEN /\ pc' = "returned"
                  /\ result' = Raised("fit", r.err)
                  /\ ending' = EndingOf(r.err)
                  /\ params' = params
                  /\ attrs' = attrs \cup {"missing_data", "data_dim", "n_examples"}
             ELSE IF max_iter = 0
             THEN /\ pc' = "returned"
                  /\ result' = Raised("fit", "UnboundLocalError")
                  /\ ending' = "Error"
                  /\ params' = r.params
                  /\ attrs' = attrs \cup {"missing_data", "data_dim", "n_examples", "params"}
             ELSE /\ pc' = "estep"
                  /\ result' = NoResult
                  /\ ending' = "none"
                  /\ params' = params
                  /\ attrs' = attrs \cup {"missing_data", "data_dim", "n_examples"}
    /\ rng' = IF pinit = NoParams THEN Seed(rng) ELSE rng
    /\ UNCHANGED <<config, bench, isFitted, trainNll, convObs>>

\* fit, lines 291-302, and 313-316 after the break
EStep ==
    /\ pc = "estep"
    /\ UNCHANGED <<config, budget, bench, rng, missing_data, data_dim, n_examples, X,
                   cur, i, nM, prevL, kept>>
    /\ \E o \in e_step(family, missing_data, X, cur, robust) :
          /\ calls' = o.log
          /\ resp' = o.resp
          /\ nE' = nE + 1
          /\ lastStep' = "E"
          /\ IF o.err # "none"
             THEN /\ pc' = "returned"
                  /\ result' = Raised("fit", o.err)
                  /\ ending' = EndingOf(o.err)
                  /\ UNCHANGED <<ss, ll, oldL, params, trainNll, isFitted, attrs, convObs>>
             ELSE /\ ss' = o.ss
                  /\ ll' = o.ll
                  /\ IF ToleranceTest(o.ll, oldL)
                     THEN /\ pc' = "returned"
                          /\ params' = cur
                          /\ trainNll' = o.ll
                          /\ isFitted' = TRUE
                          /\ attrs' = attrs \cup {"params", "trainNll"}
                          /\ result' = Returned("fit", "None")
                          /\ ending' = "Converged"
                          /\ convObs' = Observable'
                          /\ UNCHANGED oldL
                     ELSE /\ pc' = "mstep"
                          /\ oldL' = o.ll
                          /\ UNCHANGED <<params, trainNll, isFitted, attrs,
                                         result, ending, convObs>>

\* (a variant of a range that never runs out)
RangeNeverExhausted(done, n) == FALSE

\* for i in range(self.max_iter): after done passes of the body no value of
\* the range is left
RangeExhausted(done, n) == done = n

\* (a variant in which the loop goes on to the next E-step without running
\* the M-step)
MStepSkipped ==
    /\ pc = "mstep"
    /\ pc' = "estep"
    /\ UNCHANGED <<config, budget, bench, rng, model, X, cur, oldL, ll, i, ss, resp,
                   ghost>>

\* fit, line 305, and 307-316 when that was the last iteration of the budget
MStep ==
    /\ pc = "mstep"
    /\ \E o \in m_step(family, ss, cur, robust, n_examples) :
          /\ nM' = nM + 1
          /\ lastStep' = "M"
          /\ kept' = (kept /\ o.input = cur)
          /\ IF o.err # "none"
             THEN /\ pc' = "returned"
                  /\ result' = Raised("fit", o.err)
                  /\ ending' = EndingOf(o.err)
                  /\ UNCHANGED <<cur, i, calls, resp, prevL,
                                 params, trainNll, isFitted, attrs>>
             ELSE /\ cur' = o.params
                  /\ i' = i + 1
                  /\ calls' = <<>>
                  /\ resp' = resp
                  /\ prevL' = ll
                  /\ IF RangeExhausted(i + 1, max_iter)
                     THEN /\ pc' = "returned"
                          /\ params' = o.params
                          /\ trainNll' = ll
                          /\ isFitted' = TRUE
                          /\ attrs' = attrs \cup {"params", "trainNll"}
                          /\ result' = Returned("fit", "None")
                          /\ ending' = "MaxIterExceeded"
                     ELSE /\ pc' = "estep"
                          /\ UNCHANGED <<params, trainNll, isFitted, attrs,
                                         result, ending>>
    /\ UNCHANGED <<config, budget, bench, rng, missing_data, data_dim, n_examples, X,
                   oldL, ll, ss, nE, convObs>>

\* ---- queries ----
\* datasets a query is given: no entirely missing row
QueryData == {Xs \in Datasets : Len(Xs) > 0 /\ DropAllMissing(Xs) = Xs}

\* (a variant in which a query records the size of the data it is given)
QueryRecordsShape(r) ==
    /\ pc = "idle"
    /\ pc' = "returned"
    /\ result' = r
    /\ n_examples' = 1
    /\ UNCHANGED <<config, budget, bench, rng, isFitted, params, trainNll,
                   missing_data, data_dim, attrs, X, cur, oldL, ll, i, ss, resp,
                   calls, ending, nE, nM, prevL, lastStep, convObs, kept>>

Query(r) ==
    /\ pc = "idle"
    /\ pc' = "returned"
    /\ result' = r
    /\ UNCHANGED <<config, budget, bench, rng, model, X, cur, oldL, ll, i, ss, resp,
                   calls, ending, nE, nM, prevL, lastStep, convObs, kept>>

\* score_samples, lines 352-358
ScoreSamples(Xq) ==
    IF ~isFitted THEN Query(Returned("score_samples", "None"))
    ELSE \E e \in e_step_ends(family, missing_data, Xq, params, robust) :
            Query(IF e # "none" THEN Raised("score_samples", e)
                  ELSE Returned("score_samples", "value"))

\* score, lines 360-381
Score(Xq) ==
    IF ~isFitted THEN Query(Returned("score", "None"))
    ELSE \E e \in e_step_ends(family, missing_data, Xq, params, robust) :
            Query(IF e # "none" THEN Raised("score", e)
                  ELSE Returned("score", "value"))

\* sample, lines 318-350 and 1551-1583: component z is drawn, then a point
\* from its covariance (numpy may raise on a NaN covariance)
Sample ==
    IF ~isFitted THEN Query(Returned("sample", "None"))
    ELSE \E z \in K :
            \/ Query(Returned("sample", "value"))
            \/ /\ params.cond[z] = "bad"
               /\ Query(Raised("sample", "LinAlgError"))

\* MFA.reconstruct, lines 1594-1625: no return statement on either branch
Reconstruct ==
    /\ family = "MFA"
    /\ Query(Returned("reconstruct", "None"))

\* the call is over: its frame (the locals of fit) is gone, the caller has
\* the result
Return ==
    /\ pc = "returned"
    /\ pc' = "idle"
    /\ X' = <<>>
    /\ cur' = NoParams
    /\ oldL' = NegInf
    /\ ll' = Unbound
    /\ i' = 0
    /\ ss' = NoStats
    /\ resp' = <<>>
    /\ calls' = <<>>
    /\ result' = NoResult
    /\ ending' = "none"
    /\ nE' = 0
    /\ nM' = 0
    /\ prevL' = NegInf
    /\ lastStep' = "none"
    /\ kept' = TRUE
    /\ UNCHANGED <<config, budget, bench, rng, model, convObs>>

Next ==
    \/ \E Xin \in Datasets : \E pinit \in CallerParams \cup {NoParams} : Fit(Xin, pinit)
    \/ EStep
    \/ MStep
    \/ \E Xq \in QueryData : ScoreSamples(Xq)
    \/ \E Xq \in QueryData : Score(Xq)
    \/ Sample
    \/ Reconstruct
    \/ Return

Spec == Init /\ [][Next]_vars
SpecRefit == InitRefit /\ [][Next]_vars

\* ---- the matrix computations, applied to their inputs ----
Apply(op, out) ==
    /\ probe.op = op
    /\ ~probe.done
    /\ probe' = [probe EXCEPT !.done = TRUE, !.out = out]
    /\ UNCHANGED <<config, budget, model, frame, ghost, rng>>

\* a fully observed row through the complete-data and the missing-data E-step
RowStatistics ==
    LET a == probe.arg IN
    Apply("rowstats", [nomiss |-> RowStatsNoMiss(a.W, a.dev, a.z, a.cov, a.r),
                       miss |-> RowStatsMiss(a.W, a.dev, a.z, a.cov, a.r)])

\* _params_to_Sigma, then _convert_gmm_params
Rederive == Apply("roundtrip", RoundTrip(probe.fam, probe.arg, probe.D))

\* _params_to_Sigma of a low-rank family
Materialize ==
    Apply("materialize",
          params_to_Sigma(probe.fam, probe.arg.p, probe.arg.mode, probe.D))

\* one pass of the loop over the components of _m_step
UpdateComponent ==
    LET a == probe.arg IN
    Apply("mstep", m_step_component(a.r, a.W, a.x, a.z, a.zz, a.xz))

NextAlgebra == RowStatistics \/ Rederive \/ Materialize \/ UpdateComponent
SpecAlgebra == InitAlgebra /\ [][NextAlgebra]_vars

\* ---- properties ----
FitOver == pc = "returned" /\ result.op = "fit"
Queries == {"score", "score_samples", "sample", "reconstruct"}

\* C1: at the end of any fit call, on a fresh or a previously fitted model,
\* the model is marked fitted if and only if the call ended in Converged or
\* MaxIterExceeded; a call that ended in Failed leaves it unfitted (stated
\* for the calls on a dataset with accepted rows that ended in one of the
\* three, on a model that stores no NaN log-likelihood).
C1_FittedIffSucceeded ==
    (FitOver /\ n_examples > 0 /\ trainNll # NaN
        /\ ending \in {"Converged", "MaxIterExceeded", "Failed"})
        => (isFitted <=> ending \in {"Converged", "MaxIterExceeded"})

\* C2: score, score_samples, sample and reconstruct, called on a model on
\* which no fit has succeeded, end in an error and never return normally.
C2_UnfittedQueryFails ==
    (pc = "returned" /\ result.op \in Queries /\ ~isFitted)
        => result.outcome = "raised"

\* the tolerance test as the claim words it: both values finite and less than
\* the tolerance apart (minus infinity is never within tolerance of a value)
WithinTol(a, b) == a.k = "fin" /\ b.k = "fin" /\ a.v - b.v < tol /\ b.v - a.v < tol

\* C3: fit leaves the loop as Converged at the first iteration whose
\* log-likelihood is within the tolerance of the previous iteration's (minus
\* infinity before the first), and no M-step runs after that E-step: after
\* every E-step that returned, the fit has ended Converged with one E-step
\* more than M-steps if the test is met, and is about to run the M-step if not.
C3_ConvergedAtFirstPass ==
    (lastStep = "E" /\ result.outcome # "raised")
        => IF WithinTol(ll, prevL)
           THEN pc = "returned" /\ ending = "Converged" /\ nM = nE - 1
           ELSE pc = "mstep" /\ ending = "none" /\ nM = nE - 1

C3_Witness ==
    pc = "returned" /\ ending = "Converged" /\ lastStep = "E" /\ nE = 3 /\ nM = 2

\* C4: when the iteration budget max_iter >= 1 is used up without the test
\* passing, fit returns normally, the stored parameters are the output of the
\* last M-step, and the model is marked fitted.
C4_BudgetExhausted ==
    (FitOver /\ max_iter >= 1 /\ i = max_iter)
        => /\ result.outcome = "returned"
           /\ ending = "MaxIterExceeded"
           /\ isFitted
           /\ "params" \in attrs
           /\ params = cur
           /\ params.src = "mstep"
           /\ params.gen = max_iter
           /\ lastStep = "M"

C4_Witness ==
    FitOver /\ max_iter = 2 /\ i = 2 /\ nM = 2 /\ isFitted /\ params.gen = 2

\* C5: a Converged fit and a MaxIterExceeded fit never leave the model in the
\* same observable state apart from parameters and log-likelihood (a status
\* flag tells them apart).
C5_StatusFlagTellsApart ==
    (FitOver /\ ending = "MaxIterExceeded") => Observable # convObs

\* C6: in every terminal state of fit (Converged, MaxIterExceeded, Failed) the
\* model retains the last parameters and the last log-likelihood computed by
\* the run (stated for the runs on a dataset with accepted rows that computed
\* a log-likelihood).
C6_TerminalStateRetains ==
    (FitOver /\ n_examples > 0 /\ ll # Unbound
        /\ ending \in {"Converged", "MaxIterExceeded", "Failed"})
        => /\ {"params", "trainNll"} \subseteq attrs
           /\ params = cur
           /\ trainNll = ll

\* C7: fit on a dataset whose rows are all entirely missing ends with a fatal
\* error and never marks the model fitted.
C7_EmptyDatasetFails ==
    (FitOver /\ missing_data /\ n_examples = 0)
        => result.outcome = "raised" /\ ~isFitted

\* C8: the missing-data mode is true if and only if the accepted dataset
\* contains a missing entry, throughout the run (stated for the runs on a
\* dataset with accepted rows).
C8_ModeIffAcceptedHasMissing ==
    (pc \in {"estep", "mstep"} /\ n_examples > 0) => (missing_data <=> AnyNaN(X))

\* the fit was aborted with the model's ill-conditioning error
Aborted == pc = "returned" /\ result = Raised("fit", "IllConditioned")

\* C9: in the complete-data evaluator the retry/fail policy is per component:
\* a raising evaluation of component k aborts the fit with the
\* ill-conditioning error when robust is off; when it is on, exactly one
\* retry follows, with SMALL added to the covariance of k only; a retry that
\* succeeds lets the batch continue with the next component's unmodified
\* covariance, a retry that raises aborts the fit with that error.
C9_RetryPerComponent ==
    (lastStep = "E" /\ ~missing_data)
        => /\ Len(calls) >= 1
           /\ calls[1].k = 1
           /\ \A j \in 1..Len(calls) :
                 LET c == calls[j]
                     last == j = Len(calls)
                 IN
                 /\ c.n = 0
                 /\ c.out = Logpdf(cur.cond[c.k], c.reg)
                 /\ (j > 1 /\ ~c.reg) => c.k = calls[j - 1].k + 1
                 /\ c.reg => /\ robust
                             /\ j > 1
                             /\ calls[j - 1] = Call(0, c.k, FALSE, "raise")
                 /\ (c.out = "raise" /\ ~c.reg /\ ~robust) => (last /\ Aborted)
                 /\ (c.out = "raise" /\ ~c.reg /\ robust)
                        => (~last /\ calls[j + 1].k = c.k /\ calls[j + 1].reg)
                 /\ (c.out = "raise" /\ c.reg) => (last /\ Aborted)
                 /\ (c.out # "raise" /\ c.k < n_components)
                        => (~last /\ calls[j + 1].k = c.k + 1 /\ ~calls[j + 1].reg)
                 /\ (c.out # "raise" /\ c.k = n_components) => (last /\ ~Aborted)

C9_Witness ==
    /\ lastStep = "E"
    /\ ~missing_data
    /\ robust
    /\ pc = "mstep"
    /\ calls = <<Call(0, 1, FALSE, "raise"), Call(0, 1, TRUE, "finite"),
                 Call(0, 2, FALSE, "finite")>>

\* C10: in the M-step of both low-rank families, a singular weighted_zz_sum
\* of a component makes the M-step continue (after the regularized solve)
\* when robust is on, and makes the fit fail with the model's ill-conditioning
\* error when robust is off (stated for datasets with accepted rows).
C10_SingularZZPolicy ==
    (lastStep = "M" /\ family \in LowRank /\ n_examples > 0
        /\ \E k \in K : ss.zz[k] = "sing")
        => IF robust THEN result.outcome # "raised"
           ELSE result = Raised("fit", "IllConditioned")

\* the weights are non-negative and sum to 1
ValidWeights(w) ==
    /\ ~w.nan
    /\ w.den > 0
    /\ \A k \in K : w.num[k] >= 0
    /\ Sum(w.num) = w.den

\* every row of the responsibilities is non-negative and sums to 1
RowsSumToOne ==
    \A n \in 1..Len(resp) :
        /\ ~resp[n].nan
        /\ \A k \in K : resp[n].r[k] >= 0
        /\ Sum(resp[n].r) = n_components

\* the M-step of the current iteration has returned
MStepReturned == lastStep = "M" /\ cur.src = "mstep" /\ result.outcome # "raised"

\* C11: after every M-step, and in the parameters stored by every fit that
\* returns, the mixture weights are non-negative and sum to 1, given
\* responsibilities whose rows sum to 1 (stated for the calls whose dataset
\* has a row, accepted or not).
C11_WeightsOnSimplex ==
    (RowsSumToOne /\ (n_examples = 0 => missing_data))
        => /\ MStepReturned => ValidWeights(cur.w)
           /\ (FitOver /\ result.outcome = "returned") => ValidWeights(params.w)

\* C12: every M-step sets weights[k] to occupation_count[k] / N, N being the
\* number of rows of the dataset of the current fit call once the entirely
\* missing rows are dropped, the same in every iteration of the call.
C12_WeightsAreCountsOverN ==
    /\ (pc \in {"estep", "mstep"} \/ FitOver) => n_examples = Len(X)
    /\ MStepReturned
          => IF Len(X) = 0 \/ \E n \in 1..Len(resp) : resp[n].nan
             THEN cur.w.nan
             ELSE /\ ~cur.w.nan
                  /\ cur.w.den = Len(X) * n_components
                  /\ \A k \in K : cur.w.num[k] = Occupation(resp)[k]

C12_Witness ==
    /\ MStepReturned
    /\ i = 2
    /\ Len(X) = 2
    /\ cur.w = Quotient(<<1, 3>>, 4)

\* C13: for every row, in both evaluators, the responsibilities returned are
\* non-negative and sum to 1, and the row log-likelihood is the log-sum-exp
\* of (log-density + log weight), a finite value.
C13_ResponsibilitiesSumToOne ==
    (lastStep = "E" /\ result.outcome # "raised" /\ n_examples > 0)
        => RowsSumToOne /\ Len(resp) = n_examples /\ ll.k = "fin"

\* C15: in missing-data mode a row with no missing coordinate adds to every
\* statistic what the complete-data E-step of the family adds for it, for
\* every latent dimension, and no error is raised (stated for MPPCA).
C15_FullRowSameStatistics ==
    (probe.op = "rowstats" /\ probe.done)
        => /\ probe.out.miss.err = "none"
           /\ probe.out.miss = probe.out.nomiss

\* C16: for the full, spherical and diagonal families, the compact parameters
\* re-derived from the covariance matrix that _params_to_Sigma builds from
\* them are the original ones.
C16_RoundTrip ==
    (probe.op = "roundtrip" /\ probe.done) => probe.out = probe.arg

C16_Witness ==
    /\ probe.op = "roundtrip"
    /\ probe.done
    /\ probe.fam = "SphericalGMM"
    /\ probe.D = 3
    /\ probe.arg.sigma_sq = 2
    /\ probe.out.sigma_sq = 2

\* C17: the materializer of each low-rank family takes an optional noiseless
\* mode: with it the result is W W^T, without it W W^T plus the noise term.
C17_NoiselessMode ==
    (probe.op = "materialize" /\ probe.done)
        => LET W == probe.arg.p.W
               WWt == MatMul(W, Transpose(W))
               noise == IF probe.fam = "MPPCA"
                        THEN Scale(probe.arg.p.sigma_sq, Eye(probe.D))
                        ELSE probe.arg.p.Psi
           IN
           /\ probe.out.err = "none"
           /\ probe.out.v = IF probe.arg.mode = "noiseless" THEN WWt
                            ELSE Plus(WWt, noise)

\* C19: in missing-data mode with robust on, a density evaluation that fails
\* is retried for the same row and component with SMALL added to the diagonal
\* of the covariance of the observed coordinates, and the E-step goes on when
\* the retry succeeds.
C19_RetryOnObservedBlock ==
    (lastStep = "E" /\ missing_data /\ robust)
        => \A j \in 1..Len(calls) :
              (calls[j].out = "raise" /\ ~calls[j].reg)
                  => /\ j < Len(calls)
                     /\ calls[j + 1] = Call(calls[j].n, calls[j].k, TRUE,
                                            Logpdf(cur.cond[calls[j].k], TRUE))
                     /\ calls[j + 1].out # "raise"
                            => (j + 1 < Len(calls) \/ result.outcome # "raised")

\* C20: a density evaluation that returns a non-finite log-density without
\* raising is treated like a failure: under robust it is followed by one
\* regularized evaluation of the same row and component, otherwise (and when
\* it is the regularized evaluation itself) the fit ends with the model's
\* ill-conditioning error; the value never reaches the responsibilities
\* (stated for datasets with accepted rows).
C20_NonFiniteDensityIsFailure ==
    (lastStep = "E" /\ n_examples > 0)
        => \A j \in 1..Len(calls) :
              calls[j].out = "nonfinite"
                  => IF robust /\ ~calls[j].reg
                     THEN /\ j < Len(calls)
                          /\ calls[j + 1].n = calls[j].n
                          /\ calls[j + 1].k = calls[j].k
                          /\ calls[j + 1].reg
                     ELSE j = Len(calls) /\ Aborted

\* C18: two fit calls with the same seed, the same data and the default
\* initialization start from the same initial parameters whatever was drawn
\* in the process before: every generator the initializer draws from is in
\* the state the seed put it in.
C18_SeedGovernsInitializer ==
    cur.src = "init" => (rng.py = "seeded" /\ cur.draw = "seeded")

\* C21: within one fit E-steps and M-steps strictly alternate, starting with
\* an E-step: an E-step is about to run only at the start or right after an
\* M-step, with as many E-steps as M-steps done and on the parameters that
\* M-step returned; an M-step is about to run only right after an E-step, on
\* the statistics that E-step computed from the current parameters; what an
\* M-step returns is built from those statistics.
C21_StrictAlternation ==
    /\ pc = "estep"
           => /\ lastStep \in {"begin", "M"}
              /\ nE = nM
              /\ cur.gen = nM
              /\ IF nM = 0 THEN lastStep = "begin" /\ cur.src \in {"init", "caller"}
                 ELSE lastStep = "M" /\ cur.src = "mstep"
    /\ pc = "mstep"
           => /\ lastStep = "E"
              /\ nE = nM + 1
              /\ cur.gen = nM
              /\ ss.gen = cur.gen
              /\ ss.r = Occupation(resp)
    /\ MStepReturned
           => /\ nE = nM
              /\ cur.gen = ss.gen + 1
              /\ cur.w = Weights(ss, n_examples)

C21_Witness ==
    pc = "estep" /\ lastStep = "M" /\ nE = 2 /\ nM = 2 /\ cur.gen = 2

\* the loop of fit is running
InLoop == pc \in {"estep", "mstep"}

\* C22: for every input and every max_iter >= 0 fit ends, by returning or
\* raising, after at most max_iter E-steps and at most max_iter M-steps, and
\* it ends on the tolerance test, on the iteration budget or on an error:
\* the counts never exceed max_iter, the step in turn can always be taken,
\* every step of a running loop is one more E-step or M-step, and a fit that
\* is over ended in one of the three ways.
C22_FitEnds ==
    /\ [](/\ (InLoop \/ FitOver) => (nE <= max_iter /\ nM <= max_iter)
          /\ pc = "estep" => e_step_ends(family, missing_data, X, cur, robust) # {}
          /\ pc = "mstep" => m_step(family, ss, cur, robust, n_examples) # {}
          /\ FitOver => \/ result.outcome = "raised"
                         \/ /\ ending = "Converged"
                            /\ lastStep = "E"
                            /\ ToleranceTest(ll, prevL)
                         \/ /\ ending = "MaxIterExceeded"
                            /\ lastStep = "M"
                            /\ nM = max_iter)
    /\ [][InLoop => /\ nE' + nM' = nE + nM + 1
                    /\ InLoop' \/ FitOver']_vars

C22_Witness ==
    FitOver /\ max_iter = 3 /\ nE = 3 /\ nM = 3 /\ ending = "MaxIterExceeded"

\* C23: every M-step, of every family, returns a newly built parameters
\* value and leaves the value it was given as it was: in particular the
\* params_init of the caller, which the first M-step is given, is after fit
\* what it was before.
C23_MStepBuildsNew ==
    /\ kept
    /\ MStepReturned => cur.src = "mstep" /\ cur.gen = nM

\* a fit on parameters of the caller (nothing was seeded) that ran M-steps
C23_Witness ==
    FitOver /\ rng.py = "unseeded" /\ result.outcome = "returned" /\ nM = 2 /\ kept

\* C24: in the missing-data E-step of the low-rank families every row's
\* contribution to the latent accumulators of component k is multiplied by
\* the row's responsibility for k: a component for which every row has
\* responsibility zero gets the zero matrix as its E[zz^T] accumulator, which
\* is singular.
C24_LatentMomentsWeighted ==
    (pc = "mstep" /\ family \in LowRank /\ missing_data /\ n_examples > 0 /\ ~ss.nan)
        => \A k \in K : ss.r[k] = 0 => ss.zz[k] = "sing"

\* C25: in the M-step of both low-rank families the new mean of a component
\* is (weighted_data_sum - W_old * weighted_factor_sum) / occupation_count,
\* with the loading matrix of the input parameters, whatever the new loading
\* matrix is; the new loading matrix is the solution of the system of the
\* accumulators.
C25_MeanUsesOldLoadings ==
    (probe.op = "mstep" /\ probe.done)
        => LET a == probe.arg
               o == probe.out
           IN
           /\ o.mu.den = a.r
           /\ \A d \in 1..probe.D :
                 o.mu.num[d] + MatVec(a.W, a.z)[d] = a.x[d]
           /\ MatMul(o.W, a.zz) = a.xz

\* the new loading matrix differs from the old one and the factor sum is
\* not zero
C25_Witness ==
    /\ probe.op = "mstep"
    /\ probe.done
    /\ probe.fam = "MFA"
    /\ probe.out.W # probe.arg.W
    /\ MatVec(probe.out.W, probe.arg.z) # MatVec(probe.arg.W, probe.arg.z)

\* C26: with max_iter >= 1 the tolerance test does not pass at the first
\* iteration, so every fit that returns has run at least one M-step and
\* stores the output of its last M-step, never its initial parameters; a
\* Converged run has run one more E-step than M-steps, a MaxIterExceeded run
\* max_iter of each.
C26_ReturnsAfterAnMStep ==
    /\ (lastStep = "E" /\ nE = 1 /\ result.outcome # "raised") => pc = "mstep"
    /\ (FitOver /\ result.outcome = "returned")
           => /\ max_iter >= 1
              /\ nM >= 1
              /\ params.src = "mstep"
              /\ params.gen = nM
              /\ ending \in {"Converged", "MaxIterExceeded"}
              /\ ending = "Converged" => nE = nM + 1
              /\ ending = "MaxIterExceeded" => (nE = max_iter /\ nM = max_iter)

C26_Witness ==
    /\ FitOver
    /\ result.outcome = "returned"
    /\ ending = "Converged"
    /\ nE = 2
    /\ nM = 1
    /\ params.src = "mstep"

\* C27: fit sets params, trainNll and isFitted together: on a model that
\* was fresh before its fit call, in every state, either the three are set
\* or none of them is.
C27_ResultAttributesTogether ==
    \/ "params" \in attrs /\ "trainNll" \in attrs /\ isFitted
    \/ "params" \notin attrs /\ "trainNll" \notin attrs /\ ~isFitted

\* C28: after every fit that returns, Converged or MaxIterExceeded, the
\* stored log-likelihood is the one of the training data under the stored
\* parameters: it is the value of the last E-step, and that E-step was run on
\* the parameters that are stored (stated for datasets with accepted rows).
C28_StoredLikelihoodOfStoredParams ==
    (FitOver /\ result.outcome = "returned" /\ n_examples > 0)
        => /\ trainNll = ll
           /\ ss.gen = params.gen

\* C29: after any sequence of fit calls, whenever the model is marked
\* fitted, its attributes are those of the fit call that produced the stored
\* parameters (a failed call leaves them as they were): n_examples is the
\* number of rows the stored weights were divided by.
C29_AttributesOfStoredParams ==
    (pc \in {"idle", "returned"} /\ isFitted /\ ~params.w.nan)
        => params.w.den = n_examples * n_components

\* what fit leaves on the model
Fitted == <<params, trainNll, isFitted, missing_data, data_dim, n_examples>>

\* C30: score, score_samples, sample and reconstruct, on a fitted or an
\* unfitted model, leave params, trainNll, isFitted, missing_data, data_dim
\* and n_examples unchanged; only fit changes them: a step that changes one
\* of them is the start of a fit call or a step of its loop.
C30_OnlyFitChangesTheModel ==
    [][/\ (pc = "idle" /\ result'.op \in Queries) => Fitted' = Fitted
       /\ Fitted' # Fitted => \/ pc = "idle" /\ pc' # "idle" /\ result'.op \notin Queries
                              \/ InLoop]_vars

C30_Witness ==
    pc = "returned" /\ result.op = "score_samples" /\ result.outcome = "returned"
        /\ isFitted /\ trainNll.k = "fin"

====
